---- MODULE Spec2Model ----
(***************************************************************************)
(* MeshRepair Blender add-on: engine communication subsystem.              *)
(*                                                                         *)
(*   connection.py     read_message / write_message / force_read_bytes /   *)
(*                     connection_thread_func (the Connection Reader)      *)
(*   manager.py        EngineManager (process or socket lifecycle)         *)
(*   engine_session.py EngineSession (interactive and batch operations)    *)
(*                                                                         *)
(* The engine itself is an external program; it is modelled as an          *)
(* environment that answers the commands it receives in order, may emit    *)
(* EVENT frames at any time, and may fail.                                 *)
(***************************************************************************)
EXTENDS Integers, Sequences, FiniteSets, TLC

\* ------------------------------------------------------------------ bounds
\* session operations called
MaxCalls == 3
\* session operations called when the engine may write any frame
MaxWireCalls == 2
\* frames other than its responses that the engine writes
MaxExtra == 1
\* session operations called when the engine may close its stdin
MaxPipeCalls == 2
\* frames written to the byte stream read_message decodes
MaxFrames == 2
\* vertices and faces of the meshes given to serialize_mesh_binary
MaxVerts == 2
MaxFaces == 1

\* --------------------------------------------------------------- constants
MSG_TYPE_COMMAND == 1
MSG_TYPE_RESPONSE == 2
MSG_TYPE_EVENT == 3
\* a frame type byte the protocol does not define
MSG_TYPE_OTHER == 7
\* bytes of the length prefix and of the type field of a frame
LenBytes == 4
TypeBytes == 1
\* payload length of the frame an engine may leave unfinished
PayBytes == 2

VARIABLES
    socket_mode,      \* EngineManager.socket_mode
    batch_mode,       \* EngineSession.batch_mode
    engine_proc,      \* "None" or "Popen"
    procAlive,        \* engine_proc.poll() is None
    stdin,            \* engine_proc.stdin: "open", "closed" by close(), or
                      \* "broken" once the engine has closed its end
    socket_conn,      \* "None" or "sock"
    socket_file,      \* "None" or "file"
    mqSet,            \* message_queue is not None
    inbox,            \* message_queue content
    batch_active,     \* EngineManager.batch_active
    mesh_loaded,      \* EngineSession.mesh_loaded
    command_queue,    \* EngineSession.command_queue
    response_queue,   \* EngineSession.response_queue
    pc,               \* caller thread: "idle" or "await" (in read_response)
    cur,              \* the session operation in progress
    outcome,          \* how the last finished session operation ended
    outbound,         \* command frames written and not yet handled by engine
    inbound,          \* complete frames written by engine, not yet read
    tailBytes,        \* bytes of an unfinished frame at the end of inbound
    inClosed,         \* inbound stream has reached end-of-file
    rdStatus,         \* reader thread: "unstarted", "running", "terminated"
    rdBuf,            \* bytes of an unfinished frame the reader has taken
    nLogged,          \* progress and log events the reader has printed
    nSent,            \* history: command frames written on this connection
    nWrote,      \* history: RESPONSE frames the engine wrote on it
    nRead,         \* history: engine responses read_response returned on it
    lastRead,         \* history: last read_response return and its waiter
    snd,              \* history: the send_command call of the last step
    nCalls, nExtra,
    stream,           \* bytes written to a stream and not yet read from it
    streamClosed,     \* the writing end of that stream is closed
    written,          \* history: every byte written to the stream
    wrote,            \* history: the frames written, whole, in order
    field,            \* read_message: the read in progress
    buf,              \* force_read_bytes: buf
    length,           \* read_message: length
    msg_type,         \* read_message: msg_type
    frames,           \* the (msg_type, msg) tuples read_message returned
    rd,               \* "reading", or the exception read_message raised
    byteWise,         \* history: every stream.read so far gave one byte
    mesh_data,        \* the mesh given to serialize_mesh_binary
    binary_data,      \* the bytes given to deserialize_mesh_binary
    decoded,          \* what deserialize_mesh_binary returned or raised
    mstep             \* mesh codec: "idle", "blob", "cut", "done"

mgrVars == <<socket_mode, engine_proc, procAlive, stdin, socket_conn,
             socket_file, mqSet, batch_active>>
sessVars == <<batch_mode, mesh_loaded, command_queue, response_queue>>
callVars == <<pc, cur, outcome, nCalls, lastRead, snd>>
wireVars == <<outbound, nSent>>
engVars == <<inbound, tailBytes, inClosed, nWrote, nExtra>>
\* the stream at byte level and the read_message call decoding it; they
\* rest while the reader thread is followed frame by frame
codecVars == <<stream, streamClosed, written, wrote, field, buf, length,
               msg_type, frames, rd, byteWise>>
\* the mesh codec, which has no state of its own
meshVars == <<mesh_data, binary_data, decoded, mstep>>
rdVars == <<rdStatus, rdBuf, nLogged, codecVars, meshVars>>
vars == <<mgrVars, sessVars, callVars, wireVars, engVars, rdVars,
          inbox, nRead>>

\* ------------------------------------------------------------------ values
\* a command dictionary; a command on the wire also carries its position
\* among the command frames written on the connection
Cmd(name) == [command |-> name]
Wire(c, id) == [t |-> MSG_TYPE_COMMAND, command |-> c.command, id |-> id]

\* cmd.get('command', 'unknown')
CmdName(cmd) == IF cmd.command = "" THEN "unknown" ELSE cmd.command

\* a RESPONSE payload the engine writes in reply to command c
\* (re: the command it answers, wr: its position among the responses the
\* engine has written on the connection)
Resp(c, wr, typ, mesh) ==
    [kind |-> "resp", re |-> c.id, wr |-> wr, typ |-> typ, src |-> "engine",
     mesh |-> mesh]

\* payloads of EVENT frames: a JSON object with its 'type' and 'progress'
\* entries, or JSON that is not an object
Event(dict, etype, prog) ==
    [kind |-> "event", dict |-> dict, etype |-> etype, prog |-> prog]

EventPayloads ==
    { Event(TRUE, "progress", "num"), Event(TRUE, "progress", "absent"),
      Event(TRUE, "progress", "str"), Event(TRUE, "log", "absent"),
      Event(TRUE, "other", "absent"), Event(FALSE, "absent", "absent") }

Malformed == [kind |-> "malformed"]

Frame(t, p) == [t |-> t, p |-> p]

NoResp == [kind |-> "none"]

\* response.get('type') and the truth of response.get('mesh_data_binary')
TypeOf(r) == IF r.kind = "resp" THEN r.typ ELSE "other"
HasMesh(r) == r.kind = "resp" /\ r.mesh
\* the value came from the engine in a RESPONSE frame
FromEngine(r) == r.kind = "resp" /\ r.src = "engine"

NoCur == [op |-> "none", wait |-> "none", id |-> 0, got |-> <<>>]
NoOutcome == [kind |-> "none", who |-> "", resps |-> <<>>]
NoRead == [id |-> 0, resp |-> NoResp, idx |-> 0]
NoSend == [status |-> "none", running |-> FALSE]


\* ------------------------------------------------------- connection.py
\* the synthetic response connection_thread_func queues when it fails
SynthErr ==
    [kind |-> "resp", re |-> 0, wr |-> 0, typ |-> "error", src |-> "reader",
     mesh |-> FALSE]

\* force_read_bytes(stream, count) with avail bytes left in the stream:
\* returns when count bytes have come, raises when the stream ends first
force_read_bytes(avail, count, closed) ==
    IF avail >= count THEN "ok"
    ELSE IF closed THEN "raise"
    ELSE "block"

\* read_message on a stream holding avail bytes of one frame whose payload
\* is paylen bytes long: three reads, length, type, payload
read_message(avail, paylen, closed) ==
    LET r1 == force_read_bytes(avail, LenBytes, closed)
        r2 == force_read_bytes(avail - LenBytes, TypeBytes, closed)
        r3 == force_read_bytes(avail - LenBytes - TypeBytes, paylen, closed)
    IN  IF r1 # "ok" THEN r1 ELSE IF r2 # "ok" THEN r2 ELSE r3

\* the EVENT branch of connection_thread_func raises on a payload that is
\* not a JSON object (msg.get) or whose progress cannot be formatted
EventRaises(p) ==
    \/ ~p.dict
    \/ p.etype = "progress" /\ p.prog \notin {"num", "absent"}

\* a reader loop that queues whatever it decodes, events included
Dispatch_QueuesEvents(f) ==
    IF f.p.kind = "malformed" THEN "raise"
    ELSE IF f.t \in {MSG_TYPE_RESPONSE, MSG_TYPE_EVENT} THEN "put"
    ELSE "skip"

\* what one iteration of the reader loop does with a decoded frame:
\* "put" queues the payload, "skip" queues nothing, "raise" ends the loop
Dispatch(f) ==
    IF f.p.kind = "malformed" THEN "raise"
    ELSE IF f.t = MSG_TYPE_RESPONSE THEN "put"
    ELSE IF f.t = MSG_TYPE_EVENT
         THEN (IF EventRaises(f.p) THEN "raise" ELSE "skip")
    ELSE "skip"

\* the reader prints the progress and log events it handles
Printed(f) ==
    /\ f.t = MSG_TYPE_EVENT
    /\ f.p.kind = "event"
    /\ f.p.etype \in {"progress", "log"}

\* an except branch that ends the loop without telling the caller
ReaderFail_Silent ==
    /\ inbox' = inbox
    /\ rdStatus' = "terminated"
    /\ rdBuf' = 0

\* an except branch that reports the error and goes back into the loop
ReaderFail_KeepsReading ==
    /\ inbox' = Append(inbox, SynthErr)
    /\ rdStatus' = "running"
    /\ rdBuf' = 0

\* the except branch of connection_thread_func
ReaderFail ==
    /\ inbox' = Append(inbox, SynthErr)
    /\ rdStatus' = "terminated"
    /\ rdBuf' = 0

\* reader loop: a complete frame is at the head of the stream
ReaderFrame ==
    /\ rdStatus = "running"
    /\ inbound # <<>>
    /\ LET f == Head(inbound)
           d == Dispatch(f)
       IN  /\ inbound' = Tail(inbound)
           /\ IF d = "raise"
              THEN ReaderFail /\ UNCHANGED nLogged
              ELSE /\ inbox' = IF d = "put" THEN Append(inbox, f.p) ELSE inbox
                   /\ rdStatus' = "running"
                   /\ rdBuf' = 0
                   /\ nLogged' = IF Printed(f) THEN nLogged + 1 ELSE nLogged
    /\ UNCHANGED <<mgrVars, sessVars, callVars, wireVars, tailBytes, inClosed,
                   nWrote, nExtra, nRead, codecVars, meshVars>>

\* reader loop: only part of a frame has arrived; force_read_bytes keeps
\* what it got and blocks for the rest
ReaderPartial ==
    /\ rdStatus = "running"
    /\ inbound = <<>>
    /\ tailBytes > rdBuf
    /\ read_message(tailBytes, PayBytes, inClosed) = "block"
    /\ rdBuf' = tailBytes
    /\ UNCHANGED <<mgrVars, sessVars, callVars, wireVars, engVars, rdStatus,
                   nLogged, inbox, nRead, codecVars, meshVars>>

\* reader loop: the stream ended at a frame boundary or inside a frame
ReaderEOF ==
    /\ rdStatus = "running"
    /\ inbound = <<>>
    /\ read_message(tailBytes, PayBytes, inClosed) = "raise"
    /\ ReaderFail
    /\ UNCHANGED <<mgrVars, sessVars, callVars, wireVars, engVars, nLogged,
                   nRead, codecVars, meshVars>>

\* ------------------------------------------------------------- the engine
EngineUp == mqSet /\ ~inClosed /\ (socket_mode \/ procAlive)

\* the engine process ends (or the peer closes the socket)
EngineGone ==
    /\ inClosed' = TRUE
    /\ procAlive' = IF socket_mode THEN procAlive ELSE FALSE

\* the engine handles the oldest command it has received
EngineReply ==
    /\ EngineUp
    /\ tailBytes = 0
    /\ outbound # <<>>
    /\ LET c == Head(outbound)
       IN  /\ outbound' = Tail(outbound)
           /\ IF c.command = "shutdown"
              THEN /\ EngineGone
                   /\ UNCHANGED <<inbound, nWrote>>
              ELSE /\ \E typ \in {"success", "error"} :
                      \E mesh \in (IF c.command = "save_mesh" /\ typ = "success"
                                   THEN BOOLEAN ELSE {FALSE}) :
                         inbound' = Append(inbound, Frame(MSG_TYPE_RESPONSE,
                                        Resp(c, nWrote + 1, typ, mesh)))
                   /\ nWrote' = nWrote + 1
                   /\ UNCHANGED <<inClosed, procAlive>>
    /\ UNCHANGED <<socket_mode, engine_proc, stdin, socket_conn,
                   socket_file, mqSet, batch_active, sessVars, callVars, nSent,
                   tailBytes, nExtra, rdVars, inbox, nRead>>

\* an engine that answers the oldest command with any JSON object: a
\* success with or without mesh_data_binary, an error, or {}
EngineReplyAny ==
    /\ EngineUp
    /\ tailBytes = 0
    /\ outbound # <<>>
    /\ LET c == Head(outbound)
       IN  /\ outbound' = Tail(outbound)
           /\ \E typ \in {"success", "error", "empty"} :
                \E mesh \in (IF typ = "success" THEN BOOLEAN ELSE {FALSE}) :
                   inbound' = Append(inbound, Frame(MSG_TYPE_RESPONSE,
                                  Resp(c, nWrote + 1, typ, mesh)))
           /\ nWrote' = nWrote + 1
    /\ UNCHANGED <<mgrVars, sessVars, callVars, nSent, inClosed,
                   tailBytes, nExtra, rdVars, inbox, nRead>>

\* the engine emits a progress or log event
EngineEvent ==
    /\ EngineUp
    /\ tailBytes = 0
    /\ nExtra < MaxExtra
    /\ \E p \in EventPayloads :
          inbound' = Append(inbound, Frame(MSG_TYPE_EVENT, p))
    /\ nExtra' = nExtra + 1
    /\ UNCHANGED <<mgrVars, sessVars, callVars, wireVars, tailBytes, inClosed,
                   nWrote, rdVars, inbox, nRead>>

\* the engine writes a frame of an undefined type, or one whose payload
\* is not JSON
EngineOddFrame ==
    /\ EngineUp
    /\ tailBytes = 0
    /\ nExtra < MaxExtra
    /\ \E f \in { Frame(MSG_TYPE_OTHER, [kind |-> "other"]),
                  Frame(MSG_TYPE_RESPONSE, Malformed),
                  Frame(MSG_TYPE_EVENT, Malformed) } :
          inbound' = Append(inbound, f)
    /\ nExtra' = nExtra + 1
    /\ UNCHANGED <<mgrVars, sessVars, callVars, wireVars, tailBytes, inClosed,
                   nWrote, rdVars, inbox, nRead>>

\* the engine has written only the first n bytes of a frame so far
EnginePartial ==
    /\ EngineUp
    /\ tailBytes = 0
    /\ nExtra < MaxExtra
    /\ \E n \in 1..(LenBytes + TypeBytes + PayBytes - 1) : tailBytes' = n
    /\ nExtra' = nExtra + 1
    /\ UNCHANGED <<mgrVars, sessVars, callVars, wireVars, inbound, inClosed,
                   nWrote, rdVars, inbox, nRead>>

\* the engine writes the rest of the frame it had begun (a log event)
EngineFinish ==
    /\ EngineUp
    /\ tailBytes > 0
    /\ tailBytes' = 0
    /\ inbound' = Append(inbound,
                         Frame(MSG_TYPE_EVENT, Event(TRUE, "log", "absent")))
    /\ UNCHANGED <<mgrVars, sessVars, callVars, wireVars, inClosed,
                   nWrote, nExtra, rdVars, inbox, nRead>>

\* the engine process exits or the peer closes the connection
EngineClose ==
    /\ EngineUp
    /\ EngineGone
    /\ UNCHANGED <<socket_mode, engine_proc, stdin, socket_conn,
                   socket_file, mqSet, batch_active, sessVars, callVars,
                   wireVars, inbound, tailBytes, nWrote, nExtra,
                   rdVars, inbox, nRead>>

\* the engine process closes its end of the stdin pipe and keeps running
EngineClosesStdin ==
    /\ EngineUp
    /\ ~socket_mode
    /\ stdin = "open"
    /\ stdin' = "broken"
    /\ UNCHANGED <<socket_mode, engine_proc, procAlive, socket_conn,
                   socket_file, mqSet, batch_active, sessVars, callVars,
                   wireVars, engVars, rdVars, inbox, nRead>>


\* --------------------------------------------------------- manager.py
\* EngineManager.is_running
is_running ==
    IF socket_mode THEN socket_conn # "None"
    ELSE engine_proc # "None" /\ procAlive

\* a send_command that looks at the process handle but not at poll()
SendStatus_HandleOnly ==
    IF socket_mode
    THEN (IF socket_conn = "None" THEN "NotRunning"
          ELSE IF socket_file = "None" THEN "AttributeError" ELSE "ok")
    ELSE IF engine_proc = "None" THEN "NotRunning"
    ELSE IF stdin = "open" THEN "ok"
    ELSE IF stdin = "closed" THEN "ValueError"
    ELSE "BrokenPipeError"

\* EngineManager.send_command: "ok" when the frame is written, else the
\* error it raises (writing to a missing socket file, to a closed stdin or
\* to a pipe the engine has closed raises and the engine gets no frame)
SendStatus ==
    IF ~is_running THEN "NotRunning"
    ELSE IF socket_mode
         THEN (IF socket_file = "None" THEN "AttributeError" ELSE "ok")
    ELSE IF stdin = "open" THEN "ok"
    ELSE IF stdin = "closed" THEN "ValueError"
    ELSE "BrokenPipeError"

\* a start that makes the process or socket and the queue but starts no
\* reader thread
MgrStartOk_NoReader ==
    /\ IF socket_mode
       THEN /\ socket_conn' = "sock"
            /\ socket_file' = "file"
            /\ UNCHANGED <<engine_proc, procAlive, stdin>>
       ELSE /\ engine_proc' = "Popen"
            /\ procAlive' = TRUE
            /\ stdin' = "open"
            /\ UNCHANGED <<socket_conn, socket_file>>
    /\ mqSet' = TRUE
    /\ inbox' = <<>>
    /\ inbound' = <<>>
    /\ tailBytes' = 0
    /\ inClosed' = FALSE
    /\ nWrote' = 0
    /\ nRead' = 0
    /\ UNCHANGED <<socket_mode, batch_active, nExtra, rdVars>>

\* EngineManager.start succeeds: a new process or socket, a new queue and
\* a new reader thread on the new inbound stream
MgrStartOk ==
    /\ IF socket_mode
       THEN /\ socket_conn' = "sock"
            /\ socket_file' = "file"
            /\ UNCHANGED <<engine_proc, procAlive, stdin>>
       ELSE /\ engine_proc' = "Popen"
            /\ procAlive' = TRUE
            /\ stdin' = "open"
            /\ UNCHANGED <<socket_conn, socket_file>>
    /\ mqSet' = TRUE
    /\ inbox' = <<>>
    /\ rdStatus' = "running"
    /\ rdBuf' = 0
    /\ nLogged' = 0
    /\ inbound' = <<>>
    /\ tailBytes' = 0
    /\ inClosed' = FALSE
    /\ nWrote' = 0
    /\ nRead' = 0
    /\ UNCHANGED <<socket_mode, batch_active, nExtra, codecVars, meshVars>>

\* EngineManager.start raises: Popen failed, or the socket was created
\* and connect() failed
MgrStartFail ==
    /\ socket_conn' = IF socket_mode THEN "sock" ELSE socket_conn
    /\ UNCHANGED <<socket_mode, engine_proc, procAlive, stdin,
                   socket_file, mqSet, batch_active, inbox, rdVars, engVars,
                   nRead>>

\* ---------------------------------------------------- engine_session.py
\* the operation returns or raises; only the message of an engine error
\* names the operation
Done(op, kind, resps) ==
    /\ pc' = "idle"
    /\ cur' = NoCur
    /\ outcome' = [kind |-> kind,
                   who |-> IF kind = "EngineError" THEN op ELSE "",
                   resps |-> resps]

Await(op, wait, id) ==
    /\ pc' = "await"
    /\ cur' = [op |-> op, wait |-> wait, id |-> id, got |-> <<>>]
    /\ UNCHANGED outcome

CanCall == pc = "idle" /\ nCalls < MaxCalls

\* manager.send_command(cmd) followed by manager.read_response(timeout)
SendAndAwait(op, name, wait) ==
    LET st == SendStatus
    IN  /\ snd' = [status |-> st, running |-> is_running]
        /\ IF st = "ok"
           THEN /\ outbound' = Append(outbound, Wire(Cmd(name), nSent + 1))
                /\ nSent' = nSent + 1
                /\ Await(op, wait, nSent + 1)
           ELSE /\ UNCHANGED <<outbound, nSent>>
                /\ Done(op, st, <<>>)

\* the command each operation sends
OpCommand(op) ==
    CASE op = "start" -> "init"
      [] op = "test" -> "get_info"
      [] op = "get_mesh_info" -> "get_info"
      [] OTHER -> op

\* EngineSession.start, called directly or by test / load_mesh when the
\* manager is not running
CallStart(op) ==
    /\ CanCall
    /\ op = "start" \/ ~is_running
    /\ nCalls' = nCalls + 1
    /\ UNCHANGED <<batch_mode, response_queue>>
    /\ \/ /\ MgrStartFail
          /\ Done(op, "StartFailed", <<>>)
          /\ snd' = NoSend
          /\ UNCHANGED <<mesh_loaded, command_queue, lastRead, wireVars>>
       \/ /\ MgrStartOk
          /\ lastRead' = NoRead
          /\ IF batch_mode
             THEN CASE op = "start" ->
                        /\ command_queue' = Append(command_queue, Cmd("init"))
                        /\ outbound' = <<>>
                        /\ nSent' = 0
                        /\ snd' = NoSend
                        /\ Done(op, "ok", <<>>)
                        /\ UNCHANGED mesh_loaded
                    [] op = "load_mesh" ->
                        /\ command_queue' = command_queue \o
                              <<Cmd("init"), Cmd("load_mesh")>>
                        /\ mesh_loaded' = TRUE
                        /\ outbound' = <<>>
                        /\ nSent' = 0
                        /\ snd' = NoSend
                        /\ Done(op, "ok", <<>>)
                    [] op = "test" ->
                        /\ command_queue' = Append(command_queue, Cmd("init"))
                        /\ outbound' = <<Wire(Cmd("get_info"), 1)>>
                        /\ nSent' = 1
                        /\ snd' = [status |-> "ok", running |-> TRUE]
                        /\ Await(op, "own", 1)
                        /\ UNCHANGED mesh_loaded
             ELSE /\ outbound' = <<Wire(Cmd("init"), 1)>>
                  /\ nSent' = 1
                  /\ snd' = [status |-> "ok", running |-> TRUE]
                  /\ Await(op, "init", 1)
                  /\ UNCHANGED <<mesh_loaded, command_queue>>

Start == CallStart("start")

\* EngineSession.test
Test ==
    \/ CallStart("test")
    \/ /\ CanCall
       /\ is_running
       /\ nCalls' = nCalls + 1
       /\ SendAndAwait("test", "get_info", "own")
       /\ UNCHANGED <<mgrVars, sessVars, lastRead, engVars, rdVars, inbox,
                      nRead>>

\* EngineSession.load_mesh
LoadMesh ==
    \/ CallStart("load_mesh")
    \/ /\ CanCall
       /\ is_running
       /\ nCalls' = nCalls + 1
       /\ IF batch_mode
          THEN /\ command_queue' = Append(command_queue, Cmd("load_mesh"))
               /\ mesh_loaded' = TRUE
               /\ snd' = NoSend
               /\ Done("load_mesh", "ok", <<>>)
               /\ UNCHANGED wireVars
          ELSE /\ SendAndAwait("load_mesh", "load_mesh", "own")
               /\ UNCHANGED <<mesh_loaded, command_queue>>
       /\ UNCHANGED <<mgrVars, batch_mode, response_queue, lastRead, engVars,
                      rdVars, inbox, nRead>>

\* a _send_or_queue that sends and awaits whatever the mode
send_or_queue_AlwaysSends(op) ==
    /\ SendAndAwait(op, OpCommand(op), "own")
    /\ UNCHANGED command_queue

\* EngineSession._send_or_queue
send_or_queue(op) ==
    IF batch_mode
    THEN /\ command_queue' = Append(command_queue, Cmd(OpCommand(op)))
         /\ snd' = NoSend
         /\ Done(op, "ok", <<>>)
         /\ UNCHANGED wireVars
    ELSE /\ SendAndAwait(op, OpCommand(op), "own")
         /\ UNCHANGED command_queue

\* the "No mesh loaded" check that opens every operation on a loaded mesh
\* a mesh_loaded check made only after the command has been queued
NoMeshLoaded_Late(op) ==
    /\ ~mesh_loaded
    /\ snd' = NoSend
    /\ Done(op, "NoMeshLoaded", <<>>)
    /\ command_queue' = Append(command_queue, Cmd(OpCommand(op)))
    /\ UNCHANGED wireVars

NoMeshLoaded(op) ==
    /\ ~mesh_loaded
    /\ snd' = NoSend
    /\ Done(op, "NoMeshLoaded", <<>>)
    /\ UNCHANGED <<command_queue, wireVars>>

\* EngineSession.preprocess, detect_holes, fill_holes
DomainOp(op) ==
    /\ CanCall
    /\ nCalls' = nCalls + 1
    /\ \/ NoMeshLoaded(op)
       \/ mesh_loaded /\ send_or_queue(op)
    /\ UNCHANGED <<mgrVars, batch_mode, mesh_loaded, response_queue, lastRead,
                   engVars, rdVars, inbox, nRead>>

Preprocess == DomainOp("preprocess")
DetectHoles == DomainOp("detect_holes")
FillHoles == DomainOp("fill_holes")

\* EngineSession.get_mesh_info
GetMeshInfo ==
    /\ CanCall
    /\ nCalls' = nCalls + 1
    /\ \/ NoMeshLoaded("get_mesh_info")
       \/ /\ mesh_loaded
          /\ SendAndAwait("get_mesh_info", "get_info", "own")
          /\ UNCHANGED command_queue
    /\ UNCHANGED <<mgrVars, batch_mode, mesh_loaded, response_queue, lastRead,
                   engVars, rdVars, inbox, nRead>>


\* a scan that starts at the oldest entry
get_last_response_First(rq, name) ==
    LET found == {i \in 1..Len(rq) : rq[i].command = name}
    IN  IF found = {} THEN NoResp
        ELSE rq[CHOOSE i \in found : \A j \in found : i <= j].response

\* EngineSession.get_last_response on a response_queue value
get_last_response(rq, name) ==
    LET found == {i \in 1..Len(rq) : rq[i].command = name}
    IN  IF found = {} THEN NoResp
        ELSE rq[CHOOSE i \in found : \A j \in found : j <= i].response

\* EngineSession.get_last_response called between two operations
GetLastResponse ==
    /\ pc = "idle"
    /\ \E name \in {"init", "get_info", "save_mesh"} :
         outcome' = [kind |-> "ok", who |-> "",
                     resps |-> <<get_last_response(response_queue, name)>>]
    /\ UNCHANGED <<mgrVars, sessVars, pc, cur, nCalls, lastRead, snd,
                   wireVars, engVars, rdVars, inbox, nRead>>

\* the fallback scan of save_mesh: the last response of the batch that is
\* not an error and carries mesh_data_binary
FallbackScan(resps) ==
    LET found == {i \in 1..Len(resps) :
                     TypeOf(resps[i]) # "error" /\ HasMesh(resps[i])}
    IN  IF found = {} THEN NoResp
        ELSE resps[CHOOSE i \in found : \A j \in found : j <= i]

\* a test that takes only None as missing
Falsy_NoneOnly(r) == r = NoResp

\* 'not save_response': the value is None or the empty dict {}
Falsy(r) == r = NoResp \/ (r.kind = "resp" /\ r.typ = "empty")

\* a save_mesh that takes the response it selected as a mesh without
\* looking for mesh_data_binary
SaveMeshResult_Unchecked(rq, resps) ==
    LET mapped == get_last_response(rq, "save_mesh")
        save_response == IF Falsy(mapped) THEN FallbackScan(resps) ELSE mapped
    IN  IF Falsy(save_response) THEN "NoSaveResponse" ELSE "ok"

\* how save_mesh ends in batch mode once execute_batch has returned
SaveMeshResult(rq, resps) ==
    LET mapped == get_last_response(rq, "save_mesh")
        save_response == IF Falsy(mapped) THEN FallbackScan(resps) ELSE mapped
    IN  IF Falsy(save_response) THEN "NoSaveResponse"
        ELSE IF ~HasMesh(save_response) THEN "NoMeshData"
        ELSE "ok"

\* an execute_batch whose send_commands_batch leaves stdin open after the
\* last frame
ExecBatch_NoClose(op, cq) ==
    LET st == SendStatus
    IN  /\ snd' = NoSend
        /\ IF st = "ok"
           THEN /\ outbound' =
                      outbound \o [i \in 1..Len(cq) |-> Wire(cq[i], nSent + i)]
                /\ nSent' = nSent + Len(cq)
                /\ UNCHANGED <<stdin, batch_active>>
                /\ Await(op, "batch", nSent + 1)
           ELSE /\ UNCHANGED <<wireVars, stdin, batch_active>>
                /\ Done(op, st, <<>>)

\* EngineSession.execute_batch from its call to the first read_response:
\* manager.send_commands_batch writes every queued command, then closes
\* stdin in process mode
ExecBatch(op, cq) ==
    LET st == SendStatus
    IN  /\ snd' = NoSend
        /\ IF st = "ok"
           THEN /\ outbound' =
                      outbound \o [i \in 1..Len(cq) |-> Wire(cq[i], nSent + i)]
                /\ nSent' = nSent + Len(cq)
                /\ stdin' = IF socket_mode THEN stdin ELSE "closed"
                /\ batch_active' = IF socket_mode THEN batch_active ELSE TRUE
                /\ Await(op, "batch", nSent + 1)
           ELSE /\ UNCHANGED <<wireVars, stdin, batch_active>>
                /\ Done(op, st, <<>>)

\* EngineSession.execute_batch
ExecuteBatch ==
    /\ CanCall
    /\ nCalls' = nCalls + 1
    /\ IF ~batch_mode
       THEN /\ Done("execute_batch", "NotBatchMode", <<>>)
            /\ snd' = NoSend
            /\ UNCHANGED <<wireVars, stdin, batch_active>>
       ELSE IF command_queue = <<>>
       THEN /\ Done("execute_batch", "EmptyBatch", <<>>)
            /\ snd' = NoSend
            /\ UNCHANGED <<wireVars, stdin, batch_active>>
       ELSE ExecBatch("execute_batch", command_queue)
    /\ UNCHANGED <<socket_mode, engine_proc, procAlive, socket_conn,
                   socket_file, mqSet, sessVars, lastRead, engVars, rdVars,
                   inbox, nRead>>

\* a flush_batch that executes the batch without looking at the mode or
\* at the queue
FlushBatch_NoCheck ==
    /\ CanCall
    /\ nCalls' = nCalls + 1
    /\ ExecBatch("flush_batch", command_queue)
    /\ UNCHANGED <<socket_mode, engine_proc, procAlive, socket_conn,
                   socket_file, mqSet, sessVars, lastRead, engVars, rdVars,
                   inbox, nRead>>

\* EngineSession.flush_batch
FlushBatch ==
    /\ CanCall
    /\ nCalls' = nCalls + 1
    /\ IF ~batch_mode \/ command_queue = <<>>
       THEN /\ Done("flush_batch", "ok", <<>>)
            /\ snd' = NoSend
            /\ UNCHANGED <<wireVars, stdin, batch_active>>
       ELSE ExecBatch("flush_batch", command_queue)
    /\ UNCHANGED <<socket_mode, engine_proc, procAlive, socket_conn,
                   socket_file, mqSet, sessVars, lastRead, engVars, rdVars,
                   inbox, nRead>>

\* EngineSession.save_mesh
SaveMesh ==
    /\ CanCall
    /\ nCalls' = nCalls + 1
    /\ \/ /\ NoMeshLoaded("save_mesh")
          /\ UNCHANGED <<stdin, batch_active>>
       \/ /\ mesh_loaded
          /\ IF batch_mode
             THEN /\ command_queue' = Append(command_queue, Cmd("save_mesh"))
                  /\ ExecBatch("save_mesh",
                        Append(command_queue, Cmd("save_mesh")))
             ELSE /\ SendAndAwait("save_mesh", "save_mesh", "own")
                  /\ UNCHANGED <<command_queue, stdin, batch_active>>
    /\ UNCHANGED <<socket_mode, engine_proc, procAlive, socket_conn,
                   socket_file, mqSet, batch_mode, mesh_loaded, response_queue,
                   lastRead, engVars, rdVars, inbox, nRead>>

\* EngineSession.queue_command, with a command dictionary that has a
\* 'command' entry or has none
QueueCommand ==
    /\ CanCall
    /\ nCalls' = nCalls + 1
    /\ snd' = NoSend
    /\ IF ~batch_mode
       THEN /\ Done("queue_command", "NotBatchMode", <<>>)
            /\ UNCHANGED command_queue
       ELSE /\ \E name \in {"get_info", ""} :
                  command_queue' = Append(command_queue, Cmd(name))
            /\ Done("queue_command", "ok", <<>>)
    /\ UNCHANGED <<mgrVars, batch_mode, mesh_loaded, response_queue, lastRead,
                   wireVars, engVars, rdVars, inbox, nRead>>


\* _stop_subprocess_mode catches RuntimeError and TimeoutExpired only: an
\* error of another class raised by writing the shutdown frame leaves it
StopRaises ==
    /\ ~socket_mode
    /\ engine_proc # "None"
    /\ ~batch_active
    /\ SendStatus \in {"ValueError", "BrokenPipeError"}

\* a socket-mode stop that asks the engine to shut down before closing
stop_socket_mode_Shutdown ==
    /\ snd' = [status |-> SendStatus, running |-> is_running]
    /\ nSent' = IF SendStatus = "ok" THEN nSent + 1 ELSE nSent
    /\ socket_file' = "None"
    /\ socket_conn' = "None"
    /\ inClosed' = IF socket_conn = "None" THEN inClosed ELSE TRUE
    /\ outbound' = IF socket_conn = "None" THEN outbound ELSE <<>>
    /\ UNCHANGED <<engine_proc, procAlive, stdin, batch_active>>

\* EngineManager._stop_socket_mode: closes the local handles, sends nothing.
\* The reader thread's next read on the closed file fails; a read that is
\* already blocked in recv when the socket is closed under it either fails
\* too or stays blocked until the peer sends or closes, as the platform has it
stop_socket_mode ==
    /\ snd' = NoSend
    /\ socket_file' = "None"
    /\ socket_conn' = "None"
    /\ IF socket_conn = "None"
       THEN inClosed' = inClosed
       ELSE \/ inClosed' = TRUE
            \/ /\ rdStatus = "running"
               /\ inbound = <<>>
               /\ inClosed' = inClosed
    /\ outbound' = IF socket_conn = "None" THEN outbound ELSE <<>>
    /\ UNCHANGED <<engine_proc, procAlive, stdin, batch_active, nSent>>

\* EngineManager._stop_subprocess_mode: terminates a batch engine, or sends
\* shutdown and waits, killing the process when that fails
stop_subprocess_mode ==
    IF engine_proc = "None"
    THEN /\ snd' = NoSend
         /\ UNCHANGED <<engine_proc, procAlive, stdin, batch_active,
                        socket_conn, socket_file, inClosed, wireVars>>
    ELSE IF StopRaises
    THEN /\ snd' = [status |-> SendStatus, running |-> is_running]
         /\ UNCHANGED <<engine_proc, procAlive, stdin, batch_active,
                        socket_conn, socket_file, inClosed, wireVars>>
    ELSE /\ IF batch_active
            THEN /\ snd' = NoSend
                 /\ UNCHANGED nSent
            ELSE /\ snd' = [status |-> SendStatus, running |-> is_running]
                 /\ nSent' = IF SendStatus = "ok" THEN nSent + 1 ELSE nSent
         /\ procAlive' = FALSE
         /\ inClosed' = TRUE
         /\ outbound' = <<>>
         /\ engine_proc' = "None"
         /\ batch_active' = FALSE
         /\ UNCHANGED <<stdin, socket_conn, socket_file>>

\* EngineManager.stop
MgrStop == IF socket_mode THEN stop_socket_mode ELSE stop_subprocess_mode

\* a stop that clears mesh_loaded after manager.stop() instead of in a
\* finally block
LoadedAfterStop_NoFinally(raised) == IF raised THEN mesh_loaded ELSE FALSE

\* mesh_loaded after EngineSession.stop: cleared in the finally block
LoadedAfterStop(raised) == FALSE

\* EngineSession.stop; it may also close a run of MaxCalls operations
Stop ==
    /\ pc = "idle"
    /\ nCalls <= MaxCalls
    /\ nCalls' = nCalls + 1
    /\ MgrStop
    /\ mesh_loaded' = LoadedAfterStop(StopRaises)
    /\ Done("stop", IF StopRaises THEN SendStatus ELSE "ok", <<>>)
    /\ UNCHANGED <<socket_mode, mqSet, batch_mode, command_queue,
                   response_queue, lastRead, inbound, tailBytes, nWrote,
                   nExtra, rdVars, inbox, nRead>>

\* pairing that walks the responses from the wrong end
Paired_Reversed(cq, resps) ==
    [i \in 1..Len(cq) |->
        [command |-> CmdName(cq[i]), response |-> resps[Len(cq) + 1 - i]]]

\* the (command_name, response) pairs execute_batch records
Paired(cq, resps) ==
    [i \in 1..Len(cq) |-> [command |-> CmdName(cq[i]), response |-> resps[i]]]

\* an end of execute_batch that pairs and clears but leaves the engine alone
BatchEnd_KeepsEngine(op, resps) ==
    /\ response_queue' = Paired(command_queue, resps)
    /\ command_queue' = <<>>
    /\ UNCHANGED <<procAlive, inClosed>>
    /\ Done(op, "ok", IF op = "save_mesh" THEN <<>> ELSE resps)

\* the end of execute_batch, after the last response has been read
BatchEnd(op, resps) ==
    /\ response_queue' = Paired(command_queue, resps)
    /\ command_queue' = <<>>
    /\ IF is_running
       THEN IF socket_mode
            THEN /\ Done(op, "AttributeError", <<>>)
                 /\ UNCHANGED <<procAlive, inClosed>>
            ELSE /\ procAlive' = FALSE
                 /\ inClosed' = TRUE
                 /\ Done(op,
                       IF op = "save_mesh"
                       THEN SaveMeshResult(Paired(command_queue, resps), resps)
                       ELSE "ok",
                       IF op = "save_mesh" THEN <<>> ELSE resps)
       ELSE /\ UNCHANGED <<procAlive, inClosed>>
            /\ Done(op,
                  IF op = "save_mesh"
                  THEN SaveMeshResult(Paired(command_queue, resps), resps)
                  ELSE "ok",
                  IF op = "save_mesh" THEN <<>> ELSE resps)

\* what an interactive operation does with the response to its own command
OwnResult(op, r) ==
    IF TypeOf(r) = "error" THEN "EngineError"
    ELSE IF op = "save_mesh" /\ ~HasMesh(r) THEN "NoMeshData"
    ELSE "ok"

\* a load_mesh that sets mesh_loaded whatever the response says
LoadedAfter_IgnoresError(op, r) ==
    IF op = "load_mesh" THEN TRUE ELSE mesh_loaded

\* an operation that drops the loaded mesh when the engine reports an error
LoadedAfter_ErrorUnloads(op, r) ==
    IF TypeOf(r) = "error" THEN FALSE
    ELSE IF op = "load_mesh" THEN TRUE ELSE mesh_loaded

\* mesh_loaded after an interactive operation has read the response to its
\* own command: load_mesh sets it once the response is not an error
LoadedAfter(op, r) ==
    IF op = "load_mesh" /\ TypeOf(r) # "error" THEN TRUE ELSE mesh_loaded

\* manager.read_response returns the oldest queued item to the operation
\* that waits for it
AwaitReturn ==
    /\ pc = "await"
    /\ mqSet
    /\ inbox # <<>>
    /\ LET r == Head(inbox)
       IN  /\ inbox' = Tail(inbox)
           /\ nRead' = IF FromEngine(r) THEN nRead + 1 ELSE nRead
           /\ lastRead' = [id |-> cur.id, resp |-> r,
                           idx |-> IF FromEngine(r) THEN nRead + 1 ELSE nRead]
           /\ CASE cur.wait = "init" ->
                    /\ IF TypeOf(r) = "error"
                       THEN /\ Done(cur.op, "EngineError", <<>>)
                            /\ snd' = NoSend
                            /\ UNCHANGED wireVars
                       ELSE IF cur.op = "start"
                       THEN /\ Done(cur.op, "ok", <<>>)
                            /\ snd' = NoSend
                            /\ UNCHANGED wireVars
                       ELSE SendAndAwait(cur.op, OpCommand(cur.op), "own")
                    /\ UNCHANGED <<mesh_loaded, command_queue, response_queue,
                                   procAlive, inClosed>>
                [] cur.wait = "own" ->
                    /\ Done(cur.op, OwnResult(cur.op, r), <<>>)
                    /\ mesh_loaded' = LoadedAfter(cur.op, r)
                    /\ snd' = NoSend
                    /\ UNCHANGED <<wireVars, command_queue,
                                   response_queue, procAlive, inClosed>>
                [] cur.wait = "batch" ->
                    LET got == Append(cur.got, r)
                    IN  /\ snd' = NoSend
                        /\ UNCHANGED <<wireVars, mesh_loaded>>
                        /\ IF Len(got) < Len(command_queue)
                           THEN /\ pc' = "await"
                                /\ cur' = [cur EXCEPT !.got = got,
                                                      !.id = cur.id + 1]
                                /\ UNCHANGED <<outcome, command_queue,
                                      response_queue, procAlive, inClosed>>
                           ELSE BatchEnd(cur.op, got)
    /\ UNCHANGED <<socket_mode, engine_proc, stdin, socket_conn,
                   socket_file, mqSet, batch_active, batch_mode, nCalls,
                   inbound, tailBytes, nWrote, nExtra, rdVars>>

\* a read_response that gives up on the connection when its timeout runs
\* out: it closes the stream and drops what the engine has not yet handled
AwaitTimeout_Cancels ==
    /\ pc = "await"
    /\ ~mqSet \/ inbox = <<>>
    /\ Done(cur.op, IF mqSet THEN "Timeout" ELSE "NotStarted", <<>>)
    /\ snd' = NoSend
    /\ outbound' = <<>>
    /\ inClosed' = TRUE
    /\ UNCHANGED <<mgrVars, sessVars, nCalls, lastRead, nSent, inbound,
                   tailBytes, nWrote, nExtra, rdVars, inbox, nRead>>

\* manager.read_response raises queue.Empty: the timeout ran out with
\* nothing in the queue
AwaitTimeout ==
    /\ pc = "await"
    /\ ~mqSet \/ inbox = <<>>
    /\ Done(cur.op, IF mqSet THEN "Timeout" ELSE "NotStarted", <<>>)
    /\ snd' = NoSend
    /\ UNCHANGED <<mgrVars, sessVars, nCalls, lastRead, wireVars,
                   engVars, rdVars, inbox, nRead>>

\* --------------------------------------------- connection.py, byte level
\* the values handed to json.dumps: {}, {"1": 1}, {1: 1} and (1,)
Payloads ==
    { [py |-> "dict", key |-> "none"], [py |-> "dict", key |-> "str"],
      [py |-> "dict", key |-> "int"], [py |-> "tuple", key |-> "none"] }

FrameTypes == {MSG_TYPE_COMMAND, MSG_TYPE_RESPONSE, MSG_TYPE_EVENT}

\* json.dumps(msg).encode('utf-8'): a dict key is written as a string and
\* a tuple as an array, so {1: 1} gives {"1": 1} and (1,) gives [1]
json_dumps(p) ==
    IF p.py = "dict"
    THEN (IF p.key = "none" THEN <<123, 125>>
          ELSE <<123, 34, 49, 34, 58, 32, 49, 125>>)
    ELSE <<91, 49, 93>>

JSONDecodeError == [py |-> "JSONDecodeError", key |-> "none"]

\* json.loads(payload_bytes.decode('utf-8')): an object becomes a dict with
\* string keys, an array a list; any other text here is not JSON
json_loads(b) ==
    IF b = <<123, 125>> THEN [py |-> "dict", key |-> "none"]
    ELSE IF b = <<123, 34, 49, 34, 58, 32, 49, 125>>
         THEN [py |-> "dict", key |-> "str"]
    ELSE IF b = <<91, 49, 93>> THEN [py |-> "list", key |-> "none"]
    ELSE JSONDecodeError

\* struct.pack('<I', n) and struct.unpack('<I', b)[0]
pack_I(n) ==
    <<n % 256, (n \div 256) % 256, (n \div 65536) % 256,
      (n \div 16777216) % 256>>

unpack_I(b) == b[1] + 256 * b[2] + 65536 * b[3] + 16777216 * b[4]

\* the bytes write_message(stream, msg) writes: length, the type byte 0x01
\* whatever the message is, payload
write_message(msg) ==
    pack_I(Len(json_dumps(msg))) \o <<MSG_TYPE_COMMAND>> \o json_dumps(msg)

\* the bytes of a frame of type t as the peer writes it
PeerFrame(t, p) == pack_I(Len(json_dumps(p))) \o <<t>> \o json_dumps(p)

\* the frame the peer may leave unfinished
LastFrame == PeerFrame(MSG_TYPE_RESPONSE, [py |-> "dict", key |-> "str"])

\* an empty stream with read_message about to read its first frame
StreamInit ==
    /\ stream = <<>>
    /\ streamClosed = FALSE
    /\ written = <<>>
    /\ wrote = <<>>
    /\ field = "length"
    /\ buf = <<>>
    /\ length = 0
    /\ msg_type = 0
    /\ frames = <<>>
    /\ rd = "reading"
    /\ byteWise = TRUE

\* the session, its connection, its reader thread and the mesh codec are
\* not involved
SessionIdle ==
    UNCHANGED <<mgrVars, sessVars, callVars, wireVars, engVars, rdStatus,
                rdBuf, nLogged, inbox, nRead, meshVars>>

\* write_message is asked to send payload p as a frame of type t; it has
\* no parameter to take t
WriteMessage ==
    /\ ~streamClosed
    /\ Len(wrote) < MaxFrames
    /\ \E t \in FrameTypes, p \in Payloads :
         /\ stream' = stream \o write_message(p)
         /\ written' = written \o write_message(p)
         /\ wrote' = Append(wrote, [t |-> t, p |-> p,
                                    by |-> "write_message"])
    /\ UNCHANGED <<streamClosed, field, buf, length, msg_type, frames, rd,
                   byteWise>>
    /\ SessionIdle

\* the peer writes a RESPONSE or EVENT frame
PeerWrites ==
    /\ ~streamClosed
    /\ Len(wrote) < MaxFrames
    /\ \E t \in {MSG_TYPE_RESPONSE, MSG_TYPE_EVENT} :
         LET p == [py |-> "dict", key |-> "str"]
         IN  /\ stream' = stream \o PeerFrame(t, p)
             /\ written' = written \o PeerFrame(t, p)
             /\ wrote' = Append(wrote, [t |-> t, p |-> p, by |-> "peer"])
    /\ UNCHANGED <<streamClosed, field, buf, length, msg_type, frames, rd,
                   byteWise>>
    /\ SessionIdle

\* the writing end closes, at a frame boundary (cut = 0) or after the
\* first cut bytes of one more frame
PeerCloses ==
    /\ ~streamClosed
    /\ streamClosed' = TRUE
    /\ \E cut \in 0 .. (LenBytes + TypeBytes + 1) :
         /\ stream' = stream \o SubSeq(LastFrame, 1, cut)
         /\ written' = written \o SubSeq(LastFrame, 1, cut)
    /\ UNCHANGED <<wrote, field, buf, length, msg_type, frames, rd,
                   byteWise>>
    /\ SessionIdle

\* the count of the force_read_bytes call read_message is in
Count ==
    IF field = "length" THEN LenBytes
    ELSE IF field = "type" THEN TypeBytes
    ELSE length

\* a loop that stops at the first chunk
ReadMore_OneRead(b, count) == b = <<>> /\ count > 0

\* force_read_bytes: while len(buf) < count
ReadMore(b, count) == Len(b) < count

\* force_read_bytes, one turn of the loop: stream.read(count - len(buf))
\* gives from one byte up to what was asked, or nothing at end of file
ReadChunk ==
    /\ rd = "reading"
    /\ ReadMore(buf, Count)
    /\ \/ /\ stream # <<>>
          /\ \E k \in 1 .. (Count - Len(buf)) :
               /\ k <= Len(stream)
               /\ buf' = buf \o SubSeq(stream, 1, k)
               /\ stream' = SubSeq(stream, k + 1, Len(stream))
               /\ byteWise' = (byteWise /\ k = 1)
          /\ UNCHANGED rd
       \/ /\ stream = <<>>
          /\ streamClosed
          /\ rd' = "StreamClosed"
          /\ UNCHANGED <<stream, buf, byteWise>>
    /\ UNCHANGED <<streamClosed, written, wrote, field, length, msg_type,
                   frames>>
    /\ SessionIdle

\* force_read_bytes returns buf and read_message goes on: unpack the
\* length, unpack the type, or parse the payload and return the tuple
ReadReturn ==
    /\ rd = "reading"
    /\ ~ReadMore(buf, Count)
    /\ buf' = <<>>
    /\ IF field = "length"
       THEN IF Len(buf) = LenBytes
            THEN /\ length' = unpack_I(buf)
                 /\ field' = "type"
                 /\ UNCHANGED <<msg_type, frames, rd>>
            ELSE /\ rd' = "struct.error"
                 /\ UNCHANGED <<length, field, msg_type, frames>>
       ELSE IF field = "type"
       THEN IF Len(buf) = TypeBytes
            THEN /\ msg_type' = buf[1]
                 /\ field' = "payload"
                 /\ UNCHANGED <<length, frames, rd>>
            ELSE /\ rd' = "struct.error"
                 /\ UNCHANGED <<length, field, msg_type, frames>>
       ELSE IF json_loads(buf) = JSONDecodeError
            THEN /\ rd' = "JSONDecodeError"
                 /\ UNCHANGED <<length, field, msg_type, frames>>
            ELSE /\ frames' = Append(frames, [t |-> msg_type,
                                              p |-> json_loads(buf)])
                 /\ field' = "length"
                 /\ UNCHANGED <<length, msg_type, rd>>
    /\ UNCHANGED <<stream, streamClosed, written, wrote, byteWise>>
    /\ SessionIdle

\* ------------------------------------------------------- mesh_binary.py
\* a Python float: the bit pattern of the nearest 32-bit float, and whether
\* the double has precision beyond it. 0.0, 1.0 and 0.1
Coords ==
    { [bits |-> 0, extra |-> FALSE], [bits |-> 1065353216, extra |-> FALSE],
      [bits |-> 1036831949, extra |-> TRUE] }

\* the vertices meshes are made of: [0.0, 0.0, 1.0] and [1.0, 0.1, 0.0]
Vertices ==
    { << [bits |-> 0, extra |-> FALSE], [bits |-> 0, extra |-> FALSE],
         [bits |-> 1065353216, extra |-> FALSE] >>,
      << [bits |-> 1065353216, extra |-> FALSE],
         [bits |-> 1036831949, extra |-> TRUE],
         [bits |-> 0, extra |-> FALSE] >> }

\* sequences over S of length n, and of length at most n
RECURSIVE SeqsOfLen(_, _)
SeqsOfLen(S, n) ==
    IF n = 0 THEN {<<>>}
    ELSE {Append(q, x) : q \in SeqsOfLen(S, n - 1), x \in S}

SeqsUpTo(S, n) == UNION {SeqsOfLen(S, k) : k \in 0 .. n}

\* the indices a face is given: the lowest, the highest valid one and the
\* first one that is out of range
FaceIndices(nv) == {0, nv} \cup (IF nv > 0 THEN {nv - 1} ELSE {})

\* the meshes given to serialize_mesh_binary, which does not validate them
Meshes ==
    UNION { { [vertices |-> vs, faces |-> fs] :
                fs \in SeqsUpTo(FaceIndices(Len(vs)) \X FaceIndices(Len(vs))
                                  \X FaceIndices(Len(vs)), MaxFaces) } :
            vs \in SeqsUpTo(Vertices, MaxVerts) }

\* a float written in the byte order of a big-endian host
pack_f_BigEndian(c) ==
    <<pack_I(c.bits)[4], pack_I(c.bits)[3], pack_I(c.bits)[2],
      pack_I(c.bits)[1]>>

\* array.array('f', ...).tobytes() and frombytes on one item: a double is
\* stored as the 32-bit float nearest to it, low byte first
pack_f(c) == pack_I(c.bits)

unpack_f(b) == [bits |-> unpack_I(b), extra |-> FALSE]

\* serialize_mesh_binary(mesh_data)
serialize_mesh_binary(m) ==
    LET vertex_count == Len(m.vertices)
        face_count == Len(m.faces)
        coords == [i \in 1 .. 12 * vertex_count |->
                     pack_f(m.vertices[((i - 1) \div 12) + 1]
                                      [(((i - 1) % 12) \div 4) + 1])
                          [((i - 1) % 4) + 1]]
        indices == [i \in 1 .. 12 * face_count |->
                      pack_I(m.faces[((i - 1) \div 12) + 1]
                                    [(((i - 1) % 12) \div 4) + 1])
                           [((i - 1) % 4) + 1]]
    IN  pack_I(vertex_count) \o coords \o pack_I(face_count) \o indices

\* an index check that lets the index vertex_count through
OutOfRange_Above(tri, vertex_count) ==
    tri[1] > vertex_count \/ tri[2] > vertex_count \/ tri[3] > vertex_count

\* i0 >= vertex_count or i1 >= vertex_count or i2 >= vertex_count
OutOfRange(tri, vertex_count) ==
    tri[1] >= vertex_count \/ tri[2] >= vertex_count \/ tri[3] >= vertex_count

\* deserialize_mesh_binary(binary_data): the mesh, or the ValueError raised
deserialize_mesh_binary(b) ==
    IF Len(b) < 8 THEN [kind |-> "TooSmall"]
    ELSE
    LET vertex_count == unpack_I(SubSeq(b, 1, 4))
        coord_bytes == vertex_count * 3 * 4
    IN  IF Len(b) < 4 + coord_bytes + 4 THEN [kind |-> "TruncatedVertices"]
        ELSE
        LET offset == 4 + coord_bytes + 4
            face_count == unpack_I(SubSeq(b, offset - 3, offset))
            index_bytes == face_count * 3 * 4
        IN  IF Len(b) < offset + index_bytes THEN [kind |-> "TruncatedFaces"]
            ELSE
            LET vertices ==
                    [i \in 1 .. vertex_count |->
                       [k \in 1 .. 3 |->
                          unpack_f(SubSeq(b, 4 + 12 * (i - 1) + 4 * (k - 1) + 1,
                                          4 + 12 * (i - 1) + 4 * k))]]
                faces ==
                    [i \in 1 .. face_count |->
                       [k \in 1 .. 3 |->
                          unpack_I(SubSeq(b,
                                     offset + 12 * (i - 1) + 4 * (k - 1) + 1,
                                     offset + 12 * (i - 1) + 4 * k))]]
                bad == {i \in 1 .. face_count :
                           OutOfRange(faces[i], vertex_count)}
            IN  IF bad # {}
                THEN [kind |-> "IndexOutOfRange",
                      triple |-> faces[CHOOSE i \in bad :
                                         \A j \in bad : i <= j]]
                ELSE [kind |-> "mesh", vertices |-> vertices,
                      faces |-> faces]

NoMesh == [vertices |-> <<>>, faces |-> <<>>]

\* nothing has been serialized yet
MeshInit ==
    /\ mesh_data = NoMesh
    /\ binary_data = <<>>
    /\ decoded = [kind |-> "none"]
    /\ mstep = "idle"

\* the codec functions are called on their own
CodecOnly ==
    UNCHANGED <<mgrVars, sessVars, callVars, wireVars, engVars, rdStatus,
                rdBuf, nLogged, inbox, nRead, codecVars>>

\* serialize_mesh_binary is called on a mesh
Serialize ==
    /\ mstep = "idle"
    /\ \E m \in Meshes :
         /\ mesh_data' = m
         /\ binary_data' = serialize_mesh_binary(m)
    /\ mstep' = "blob"
    /\ UNCHANGED decoded
    /\ CodecOnly

\* the bytes are cut short before they reach deserialize_mesh_binary
Truncate ==
    /\ mstep = "blob"
    /\ \E n \in 0 .. (Len(binary_data) - 1) :
         binary_data' = SubSeq(binary_data, 1, n)
    /\ mstep' = "cut"
    /\ UNCHANGED <<mesh_data, decoded>>
    /\ CodecOnly

\* deserialize_mesh_binary is called on the bytes
Deserialize ==
    /\ mstep \in {"blob", "cut"}
    /\ decoded' = deserialize_mesh_binary(binary_data)
    /\ mstep' = "done"
    /\ UNCHANGED <<mesh_data, binary_data>>
    /\ CodecOnly

\* ------------------------------------------------------------ the system
\* EngineSession.__init__ and EngineManager.__init__: nothing started,
\* nothing queued
Fresh ==
    /\ engine_proc = "None"
    /\ procAlive = FALSE
    /\ stdin = "closed"
    /\ socket_conn = "None"
    /\ socket_file = "None"
    /\ mqSet = FALSE
    /\ inbox = <<>>
    /\ batch_active = FALSE
    /\ mesh_loaded = FALSE
    /\ command_queue = <<>>
    /\ response_queue = <<>>
    /\ pc = "idle"
    /\ cur = NoCur
    /\ outcome = NoOutcome
    /\ outbound = <<>>
    /\ inbound = <<>>
    /\ tailBytes = 0
    /\ inClosed = FALSE
    /\ rdStatus = "unstarted"
    /\ rdBuf = 0
    /\ nLogged = 0
    /\ nSent = 0
    /\ nWrote = 0
    /\ nRead = 0
    /\ lastRead = NoRead
    /\ snd = NoSend
    /\ nCalls = 0
    /\ nExtra = 0
    /\ StreamInit
    /\ MeshInit

\* a new session with batch_mode left to its default: batch for the process
\* pipe, interactive for the socket
Init ==
    /\ socket_mode \in BOOLEAN
    /\ batch_mode = ~socket_mode
    /\ Fresh

\* a new session built with batch_mode=True, over the pipe or the socket
BatchInit ==
    /\ socket_mode \in BOOLEAN
    /\ batch_mode = TRUE
    /\ Fresh

\* the session and its connection, with an engine that answers or ends
Next ==
    \/ Start
    \/ Test
    \/ LoadMesh
    \/ Preprocess
    \/ DetectHoles
    \/ FillHoles
    \/ GetMeshInfo
    \/ SaveMesh
    \/ ExecuteBatch
    \/ FlushBatch
    \/ QueueCommand
    \/ Stop
    \/ AwaitReturn
    \/ AwaitTimeout
    \/ ReaderFrame
    \/ ReaderEOF
    \/ EngineReply
    \/ EngineClose

Spec == Init /\ [][Next]_vars

\* the connection under every behaviour of the engine: events, frames of
\* other types, malformed payloads, frames that arrive in parts
WireNext ==
    \/ nCalls < MaxWireCalls /\ Test
    \/ AwaitReturn
    \/ AwaitTimeout
    \/ ReaderFrame
    \/ ReaderPartial
    \/ ReaderEOF
    \/ EngineReply
    \/ EngineEvent
    \/ EngineOddFrame
    \/ EnginePartial
    \/ EngineFinish
    \/ EngineClose

WireSpec == Init /\ [][WireNext]_vars

\* MESHREPAIR_OT_test_engine.execute has returned: test() raised and the
\* except block reported it, or stop() has been called after test()
TestOperatorDone ==
    /\ pc = "idle"
    /\ \/ nCalls = 1 /\ outcome.kind # "ok"
       \/ nCalls = 2

\* MESHREPAIR_OT_test_engine.execute on a fresh session: session.test(),
\* then session.stop() when test() has returned
TestOperatorNext ==
    \/ nCalls = 0 /\ Test
    \/ nCalls = 1 /\ outcome.kind = "ok" /\ Stop
    \/ AwaitReturn
    \/ AwaitTimeout
    \/ ReaderFrame
    \/ ReaderEOF
    \/ EngineReply
    \/ EngineClose
    \/ EngineClosesStdin

TestOperatorSpec == Init /\ [][TestOperatorNext]_vars

\* sessions that are started, tested and stopped, with a reader thread that
\* takes its next step whenever it has one: it is a running thread of its
\* own that only waits inside stream.read
StopNext ==
    \/ /\ nCalls < MaxPipeCalls
       /\ Start \/ Test \/ Stop
    \/ AwaitReturn
    \/ AwaitTimeout
    \/ ReaderFrame
    \/ ReaderEOF
    \/ EngineReply
    \/ EngineClose

StopLive ==
    /\ Init /\ [][StopNext]_vars
    /\ WF_vars(ReaderFrame)
    /\ WF_vars(ReaderEOF)

\* batch sessions on a process whose engine may answer with any JSON object
SaveInit == Init /\ batch_mode

SaveNext ==
    \/ LoadMesh
    \/ SaveMesh
    \/ AwaitReturn
    \/ AwaitTimeout
    \/ ReaderFrame
    \/ EngineReplyAny

SaveSpec == SaveInit /\ [][SaveNext]_vars

\* ------------------------------------------------- repair_operators.py
\* session.load_mesh(mesh_data, selection_info=...) as the detect_holes,
\* fill_holes and repair_all operators call it: load_mesh takes no such
\* parameter, so the call raises TypeError before its body runs
LoadMeshKw ==
    /\ CanCall
    /\ nCalls' = nCalls + 1
    /\ snd' = NoSend
    /\ Done("load_mesh", "TypeError", <<>>)
    /\ UNCHANGED <<mgrVars, sessVars, lastRead, wireVars, engVars, rdVars,
                   inbox, nRead>>

\* the operator's finally block has run session.stop(): only stop() clears
\* mesh_loaded once load_mesh has set it, and stop() is the second call
\* when load_mesh failed
OperatorDone == pc = "idle" /\ nCalls >= 2 /\ ~mesh_loaded

\* the try block of an operator's execute has nothing left to call: a call
\* raised, or the last step of the preprocess operator has returned
\* (flush_batch or save_mesh; preprocess itself on an interactive session
\* whose result is not retrieved)
OperatorTryEnds ==
    \/ outcome.kind # "ok"
    \/ nCalls = 3
    \/ nCalls = 2 /\ ~batch_mode

\* MESHREPAIR_OT_preprocess.execute on a fresh session (load_mesh,
\* preprocess, then flush_batch or save_mesh, and stop() in the finally
\* block), and the first call of the other three operators
OperatorNext ==
    \/ nCalls = 0 /\ LoadMesh
    \/ nCalls = 0 /\ LoadMeshKw
    \/ nCalls = 1 /\ outcome.kind = "ok" /\ Preprocess
    \/ nCalls = 2 /\ outcome.kind = "ok" /\ batch_mode /\ FlushBatch
    \/ nCalls = 2 /\ outcome.kind = "ok" /\ SaveMesh
    \/ nCalls >= 1 /\ ~OperatorDone /\ OperatorTryEnds /\ Stop
    \/ AwaitReturn
    \/ AwaitTimeout
    \/ ReaderFrame
    \/ ReaderEOF
    \/ EngineReply
    \/ EngineClose
    \/ EngineClosesStdin

OperatorSpec == Init /\ [][OperatorNext]_vars

\* sessions whose engine may close its stdin while it runs, so that a
\* command written to it fails with a broken pipe
PipeNext ==
    \/ /\ nCalls < MaxPipeCalls
       /\ Start \/ LoadMesh \/ GetMeshInfo \/ ExecuteBatch \/ Stop
    \/ AwaitReturn
    \/ AwaitTimeout
    \/ ReaderFrame
    \/ ReaderEOF
    \/ EngineReply
    \/ EngineClose
    \/ EngineClosesStdin

PipeSpec == Init /\ [][PipeNext]_vars

\* sessions in batch mode over either transport: commands are queued,
\* executed as a batch and the recorded responses looked up
BatchNext ==
    \/ Start
    \/ QueueCommand
    \/ ExecuteBatch
    \/ FlushBatch
    \/ GetLastResponse
    \/ AwaitReturn
    \/ AwaitTimeout
    \/ ReaderFrame
    \/ ReaderEOF
    \/ EngineReply
    \/ EngineClose

BatchSpec == BatchInit /\ [][BatchNext]_vars

\* a byte stream written by write_message and by the peer, and one reader
\* calling read_message on it again and again
CodecNext ==
    \/ WriteMessage
    \/ PeerWrites
    \/ PeerCloses
    \/ ReadChunk
    \/ ReadReturn

CodecInit == Init /\ ~socket_mode

CodecSpec == CodecInit /\ [][CodecNext]_vars

\* the mesh codec applied to a mesh, with the bytes possibly cut short
MeshNext ==
    \/ Serialize
    \/ Truncate
    \/ Deserialize

MeshSpec == CodecInit /\ [][MeshNext]_vars

\* The same connection with a caller that waits without a timeout
\* (read_response's default).  The reader is a thread of its own and the
\* blocked queue.get returns once an item is there, so both are weakly fair.
LiveNext ==
    \/ nCalls < MaxWireCalls /\ Test
    \/ AwaitReturn
    \/ ReaderFrame
    \/ ReaderPartial
    \/ ReaderEOF
    \/ EngineReply
    \/ EngineEvent
    \/ EngineOddFrame
    \/ EnginePartial
    \/ EngineFinish
    \/ EngineClose

WireLive ==
    /\ Init /\ [][LiveNext]_vars
    /\ WF_vars(ReaderFrame)
    /\ WF_vars(ReaderPartial)
    /\ WF_vars(ReaderEOF)
    /\ WF_vars(AwaitReturn)

-----------------------------------------------------------------------------
\* Properties of the connection reader and the inbox

\* C1: read_response hands out the engine's RESPONSE frames in the order the
\* engine wrote them, whatever EVENT frames lie between them: the i-th
\* engine response a connection's caller reads is the i-th RESPONSE the
\* engine wrote on that connection, and an event payload is never returned.
C1_ResponsesInWriteOrder ==
    lastRead.resp # NoResp =>
        /\ lastRead.resp.kind = "resp"
        /\ FromEngine(lastRead.resp) =>
              /\ lastRead.resp.wr = lastRead.idx
              /\ lastRead.resp.re = lastRead.idx

\* three responses read in order on a connection on which the reader has
\* handled an event in between
C1_Witness ==
    /\ lastRead.idx = 3
    /\ FromEngine(lastRead.resp)
    /\ lastRead.resp.wr = 3
    /\ nLogged >= 1
    /\ rdStatus = "running"

\* C2: a step in which the reader handles a decoded EVENT frame leaves the
\* inbox as it was, whatever the event's payload.
C2_EventLeavesInbox ==
    [][ (/\ ReaderFrame
         /\ Head(inbound).t = MSG_TYPE_EVENT
         /\ Head(inbound).p.kind = "event") => inbox' = inbox ]_vars

\* C3: when the stream is closed while the reader is inside a frame and a
\* caller is blocked in read_response on an empty inbox, the caller is
\* eventually handed the reader's error response; and the inbox never
\* holds anything but whole RESPONSE payloads and that error response.
MidFrameClosed ==
    /\ pc = "await"
    /\ inbox = <<>>
    /\ rdStatus = "running"
    /\ inClosed
    /\ inbound = <<>>
    /\ tailBytes > 0

C3_MidFrameCloseUnblocks ==
    /\ MidFrameClosed ~> (pc = "idle" /\ lastRead.resp = SynthErr)
    /\ [](\A i \in 1..Len(inbox) : inbox[i].kind = "resp")

\* the stream ended two bytes into a frame and the caller got the error
C3_Witness ==
    /\ inClosed
    /\ tailBytes = 2
    /\ rdStatus = "terminated"
    /\ pc = "idle"
    /\ lastRead.resp = SynthErr

-----------------------------------------------------------------------------
\* Properties of the session and the manager

\* C4: in an interactive session every engine response an operation reads
\* is the reply to the command that operation sent.
C4_ReadsOwnReply ==
    (~batch_mode /\ FromEngine(lastRead.resp)) => lastRead.resp.re = lastRead.id

\* a session operation begins in this step
CallBegins == pc = "idle" /\ nCalls' = nCalls + 1

\* C5: preprocess, detect_holes, fill_holes, get_mesh_info and save_mesh
\* called while mesh_loaded is false fail with 'No mesh loaded' at once:
\* nothing is written, nothing is taken from the inbox and both queues
\* stay as they were.
C5_NoMeshNoIO ==
    [][ (/\ ~mesh_loaded
         /\ Preprocess \/ DetectHoles \/ FillHoles \/ GetMeshInfo \/ SaveMesh)
        => /\ outcome'.kind = "NoMeshLoaded"
           /\ pc' = "idle"
           /\ UNCHANGED <<outbound, nSent, inbox, nRead, command_queue,
                          response_queue>> ]_vars

\* an operation was refused on a running engine with a command queued
C5_Witness ==
    /\ outcome.kind = "NoMeshLoaded"
    /\ ~mesh_loaded
    /\ is_running
    /\ command_queue # <<>>

\* the step in which a load_mesh succeeds: queued in batch mode, or its
\* read returning a response that is not an error in interactive mode
LoadSucceeds ==
    \/ /\ batch_mode
       /\ CallBegins
       /\ Len(command_queue') > Len(command_queue)
       /\ command_queue'[Len(command_queue')].command = "load_mesh"
    \/ /\ ~batch_mode
       /\ pc = "await" /\ cur.op = "load_mesh" /\ cur.wait = "own"
       /\ inbox # <<>>
       /\ TypeOf(Head(inbox)) # "error"
       /\ pc' = "idle"

\* the step in which a load_mesh ends on an error response or a timeout
LoadFails ==
    /\ pc = "await" /\ cur.op = "load_mesh"
    /\ pc' = "idle"
    /\ outcome'.kind \in {"EngineError", "Timeout"}

BatchReturns ==
    /\ pc = "await" /\ cur.wait = "batch"
    /\ pc' = "idle"
    /\ outcome'.kind \notin {"Timeout", "NotStarted"}

C8_PairsByPosition ==
    [][ BatchReturns
        => LET got == Append(cur.got, Head(inbox))
           IN  /\ Len(got) = Len(command_queue)
               /\ \A i \in 1..Len(command_queue) :
                     /\ response_queue'[i].command = CmdName(command_queue[i])
                     /\ response_queue'[i].response = got[i]
               /\ cur.op \in {"execute_batch", "flush_batch"}
                     => outcome'.resps = got ]_vars

\* a batch returned three distinct responses, paired with init, load_mesh
\* and a command without a name
C8_Witness ==
    /\ Len(response_queue) = 3
    /\ response_queue[1].command = "init"
    /\ response_queue[2].command = "load_mesh"
    /\ response_queue[3].command = "unknown"
    /\ Len(outcome.resps) = 3
    /\ \A i \in 1..3 : /\ outcome.resps[i] = response_queue[i].response
                        /\ FromEngine(outcome.resps[i])
                        /\ outcome.resps[i].wr = i

\* C9: send_command on a manager that is not running raises 'Engine not
\* running' and writes nothing.
C9_SendWhenNotRunning ==
    [][ (/\ CallBegins \/ pc = "await"
         /\ snd' # snd \/ nCalls' # nCalls
         /\ snd'.status # "none"
         /\ ~snd'.running)
        => /\ snd'.status = "NotRunning"
           /\ nSent' = nSent ]_vars

\* an operation failed with 'Engine not running' on a manager whose child
\* process had exited
C9_Witness ==
    /\ snd.status = "NotRunning"
    /\ ~snd.running
    /\ outcome.kind = "NotRunning"
    /\ engine_proc = "Popen"
    /\ ~procAlive

\* stop() has returned on a manager that had been started
StoppedByStop ==
    /\ mqSet
    /\ IF socket_mode THEN socket_conn = "None" ELSE engine_proc = "None"

\* C10: once stop() has returned, the manager is never running again.
C10_NoRestartAfterStop ==
    [][ StoppedByStop => ~is_running' ]_vars

\* C11: in process mode, whenever stop() finishes the child process has
\* exited and been reaped, stop() has returned (its exit code) rather than
\* raised, and is_running() is false.
C11_StopReapsProcess ==
    [][ (Stop /\ ~socket_mode)
        => /\ ~procAlive'
           /\ engine_proc' = "None"
           /\ outcome'.kind = "ok"
           /\ ~is_running' ]_vars

\* C12: in socket mode stop() writes no frame: it only closes the local
\* socket and file handles, after which is_running() is false; no shutdown
\* command is ever on its way to a socket-mode engine.
C12_SocketStopSendsNothing ==
    /\ [][ (Stop /\ socket_mode)
           => /\ nSent' = nSent
              /\ snd' = NoSend
              /\ socket_conn' = "None"
              /\ socket_file' = "None"
              /\ ~is_running'
              /\ outcome'.kind = "ok" ]_vars
    /\ [](socket_mode =>
            \A i \in 1..Len(outbound) : outbound[i].command # "shutdown")

\* a socket session on which commands were written has been stopped
C12_Witness ==
    /\ socket_mode
    /\ mqSet
    /\ socket_conn = "None"
    /\ socket_file = "None"
    /\ nSent >= 2
    /\ outcome.kind = "ok"
    /\ pc = "idle"

\* C13: EngineSession.stop always leaves mesh_loaded false, also when the
\* manager's stop raises, and then the error reaches the caller.
C13_StopClearsMeshLoaded ==
    [][ Stop => /\ ~mesh_loaded'
                /\ StopRaises => /\ outcome'.kind # "ok"
                                  /\ outcome'.kind = SendStatus ]_vars

\* stop() raised on a broken pipe in a session whose mesh had been loaded
C13_Witness ==
    /\ outcome.kind = "BrokenPipeError"
    /\ ~mesh_loaded
    /\ engine_proc = "Popen"
    /\ Len(command_queue) = 2
    /\ command_queue[2].command = "load_mesh"

DomainOps ==
    {"load_mesh", "preprocess", "detect_holes", "fill_holes", "save_mesh",
     "get_mesh_info"}

\* the operation in progress takes from the inbox the engine's answer to
\* its own command, and the answer is an error
OwnErrorRead ==
    /\ pc = "await" /\ pc' = "idle"
    /\ cur.op \in DomainOps
    /\ cur.wait \in {"own", "batch"}
    /\ inbox # <<>>
    /\ FromEngine(Head(inbox))
    /\ TypeOf(Head(inbox)) = "error"
    /\ Head(inbox).re = cur.id
    /\ cur.wait = "batch" => Len(cur.got) + 1 = Len(command_queue)

\* C14: a domain operation whose own command the engine answers with an
\* error ends, in interactive and in batch mode, in the error that names
\* the operation.
C14_EngineErrorNamesOperation ==
    [][ OwnErrorRead => /\ outcome'.kind = "EngineError"
                        /\ outcome'.who = cur.op ]_vars

\* the operation in progress takes the reader's error response from the
\* inbox as the answer it is waiting for
TransportErrorRead ==
    /\ pc = "await" /\ pc' = "idle"
    /\ cur.wait \in {"init", "own"}
    /\ inbox # <<>>
    /\ Head(inbox) = SynthErr

\* C15: an operation whose read returns the reader's error response ends in
\* an outcome other than the one an engine reply of type 'error' produces.
C15_TransportErrorDistinct ==
    [][ TransportErrorRead => outcome'.kind # "EngineError" ]_vars

\* C16: when a repair operator that created a session has finished, the
\* engine process the session spawned is not running, or its socket is
\* closed.
C16_OperatorStopsSession ==
    OperatorDone => IF socket_mode THEN socket_conn = "None" ELSE ~procAlive

\* some response of a batch, or the response to an interactive command,
\* is an engine error
StepErrorSeen(resps) ==
    \E i \in 1..Len(resps) :
        FromEngine(resps[i]) /\ TypeOf(resps[i]) = "error"

\* C17: a pipeline step that has read an engine error for one of the
\* commands sent does not return normally, so the operator cannot go on to
\* report success.
C17_StepErrorAborts ==
    [][ (/\ pc = "await" /\ pc' = "idle"
         /\ cur.wait \in {"own", "batch"}
         /\ inbox # <<>>
         /\ StepErrorSeen(Append(cur.got, Head(inbox))))
        => outcome'.kind # "ok" ]_vars

\* C18: when read_response's timeout runs out on an empty inbox the
\* operation ends in the timeout outcome and nothing else changes: no frame
\* is written, the process or socket stays as it is, the command stays with
\* the engine and the reader keeps running, so a late response still
\* reaches the inbox.
C18_TimeoutChangesNothing ==
    [][ (pc = "await" /\ pc' = "idle" /\ mqSet /\ inbox = <<>>)
        => /\ outcome'.kind = "Timeout"
           /\ UNCHANGED <<mgrVars, wireVars, engVars, rdVars, inbox, nRead,
                          sessVars>> ]_vars

\* after a timeout the response to the command that was waited for has
\* arrived in the inbox
C18_Witness ==
    /\ pc = "idle"
    /\ outcome.kind = "Timeout"
    /\ inbox # <<>>
    /\ FromEngine(Head(inbox))
    /\ Head(inbox).re = nSent
    /\ rdStatus = "running"

\* C19: frame round trip: for a frame type t among COMMAND, RESPONSE and
\* EVENT and a JSON-serializable payload p, the tuple read_message returns
\* from the bytes written for (t, p) is (t, p).
C19_FrameRoundTrip ==
    \A i \in 1 .. Len(frames) :
        wrote[i].by = "write_message"
            => frames[i] = [t |-> wrote[i].t, p |-> wrote[i].p]

\* read_message on the whole of the bytes b: the frames that are complete
RECURSIVE WholeFrames(_)
WholeFrames(b) ==
    IF Len(b) < LenBytes THEN <<>>
    ELSE LET n == unpack_I(SubSeq(b, 1, LenBytes))
             size == LenBytes + TypeBytes + n
         IN  IF read_message(Len(b), n, TRUE) # "ok" THEN <<>>
             ELSE <<[t |-> b[LenBytes + TypeBytes],
                     p |-> json_loads(SubSeq(b, LenBytes + TypeBytes + 1,
                                             size))]>>
                  \o WholeFrames(SubSeq(b, size + 1, Len(b)))

\* the number of bytes the first k frames of b take, 4 + 1 + length each
RECURSIVE FrameEnd(_, _)
FrameEnd(b, k) ==
    IF k = 0 THEN 0
    ELSE LET size == LenBytes + TypeBytes + unpack_I(SubSeq(b, 1, LenBytes))
         IN  size + FrameEnd(SubSeq(b, size + 1, Len(b)), k - 1)

\* the bytes of the frame in progress that read_message has taken
InFrame ==
    IF field = "length" THEN Len(buf)
    ELSE IF field = "type" THEN LenBytes + Len(buf)
    ELSE LenBytes + TypeBytes + Len(buf)

\* C20: however the reads split the stream, read_message returns the frames
\* it returns when the stream comes whole, in the same order, having taken
\* 4 + 1 + length bytes for each; the only exception it raises is the
\* stream-closed one, raised when the stream has ended inside a frame or
\* at a boundary, after every complete frame was returned and without
\* returning the unfinished one.
C20_ChunkedReadsSameFrames ==
    /\ Len(frames) <= Len(WholeFrames(written))
    /\ frames = SubSeq(WholeFrames(written), 1, Len(frames))
    /\ rd = "reading"
         => Len(written) - Len(stream)
              = FrameEnd(written, Len(frames)) + InFrame
    /\ rd # "reading"
         => /\ rd = "StreamClosed"
            /\ streamClosed
            /\ stream = <<>>
            /\ frames = WholeFrames(written)

\* a frame was read one byte at a time, then the stream ended inside the
\* next frame and read_message raised
C20_Witness ==
    /\ rd = "StreamClosed"
    /\ byteWise
    /\ Len(frames) = 1
    /\ Len(written) > FrameEnd(written, 1)

\* the mesh with every coordinate stored as a 32-bit float
Float32(m) ==
    [vertices |-> [i \in 1 .. Len(m.vertices) |->
                     [k \in 1 .. 3 |-> [bits |-> m.vertices[i][k].bits,
                                        extra |-> FALSE]]],
     faces |-> m.faces]

ValidMesh(m) ==
    \A i \in 1 .. Len(m.faces) : \A k \in 1 .. 3 :
        m.faces[i][k] < Len(m.vertices)

CutShort ==
    /\ mstep = "done"
    /\ Len(binary_data) < Len(serialize_mesh_binary(mesh_data))

\* the length of the vertex section of the serialized mesh: count and data
VertexSection == 4 + 12 * Len(mesh_data.vertices)

\* C22: truncation detection names the failing section: bytes cut off after
\* the complete vertex section (before or inside the face count, or inside
\* the face data) are rejected with the truncation error of the face
\* section, and bytes cut off inside the vertex section with the truncation
\* error of the vertex section.
C22_TruncationNamesSection ==
    CutShort
    => /\ Len(binary_data) >= VertexSection
            => decoded.kind = "TruncatedFaces"
       /\ Len(binary_data) < VertexSection
            => decoded.kind = "TruncatedVertices"

\* the faces of m that have an index at or above the vertex count
BadFaces(m) ==
    {i \in 1 .. Len(m.faces) :
        \E k \in 1 .. 3 : m.faces[i][k] >= Len(m.vertices)}

AskedNames == {"init", "get_info", "save_mesh", "unknown"}

\* C25: get_last_response(name) returns the response of the latest entry of
\* response_queue recorded for name, the last one when the name occurs more
\* than once, and none when no entry has that name or no batch has been
\* executed; calling it never changes response_queue.
C25_LastResponse ==
    /\ [](\A name \in AskedNames :
            LET r == get_last_response(response_queue, name)
                at == {i \in 1 .. Len(response_queue) :
                          response_queue[i].command = name}
            IN  IF at = {} THEN r = NoResp
                ELSE \E i \in at : /\ r = response_queue[i].response
                                   /\ \A j \in at : j <= i)
    /\ [][GetLastResponse
            => /\ UNCHANGED <<response_queue, command_queue>>
               /\ \E name \in AskedNames :
                    outcome'.resps =
                      <<get_last_response(response_queue, name)>>]_vars

\* a batch recorded two responses for init and the later one was returned
C25_Witness ==
    /\ pc = "idle"
    /\ Len(response_queue) = 2
    /\ response_queue[1].command = "init"
    /\ response_queue[2].command = "init"
    /\ response_queue[1].response # response_queue[2].response
    /\ outcome.resps = <<response_queue[2].response>>

\* there is no batch to execute
NoBatch == ~batch_mode \/ command_queue = <<>>

\* C26: a batch is executed only in batch mode with a non-empty queue:
\* otherwise execute_batch raises and flush_batch returns an empty list,
\* and in both cases no frame is written, no response is taken from the
\* inbox, and command_queue, response_queue, the engine process and the
\* connection stay as they are.
C26_NoBatchNoEffect ==
    [][ /\ (ExecuteBatch /\ NoBatch)
           => /\ outcome'.kind =
                    IF ~batch_mode THEN "NotBatchMode" ELSE "EmptyBatch"
              /\ UNCHANGED <<mgrVars, sessVars, wireVars, engVars, rdVars,
                             inbox, nRead>>
        /\ (FlushBatch /\ NoBatch)
           => /\ outcome'.kind = "ok"
              /\ outcome'.resps = <<>>
              /\ UNCHANGED <<mgrVars, sessVars, wireVars, engVars, rdVars,
                             inbox, nRead>>
        /\ ((ExecuteBatch \/ FlushBatch) /\ nSent' # nSent)
           => ~NoBatch
      ]_vars

\* execute_batch raised on an empty queue after an earlier batch had been
\* executed, and the pairs of that batch are still there
C26_Witness ==
    /\ pc = "idle"
    /\ outcome.kind = "EmptyBatch"
    /\ batch_mode
    /\ command_queue = <<>>
    /\ response_queue # <<>>

\* the reader thread meets a fatal error: the stream has ended, or the frame
\* at its head cannot be decoded or handled
FatalStep ==
    \/ ReaderEOF
    \/ ReaderFrame /\ Dispatch(Head(inbound)) = "raise"

\* C27: on a fatal error the reader thread puts exactly one synthetic
\* error-typed response in the inbox and terminates; once it has terminated
\* nothing is put in the inbox of that connection any more, so the synthetic
\* error is the last item enqueued and the frames behind the bad frame stay
\* in the stream.
C27_SyntheticErrorIsLast ==
    [][ /\ FatalStep
           => /\ inbox' = Append(inbox, SynthErr)
              /\ rdStatus' = "terminated"
        /\ (rdStatus = "running" /\ rdStatus' = "terminated") => FatalStep
        /\ (rdStatus = "terminated" /\ rdStatus' = "terminated")
           => /\ inbox' = inbox \/ (inbox # <<>> /\ inbox' = Tail(inbox))
              /\ Len(inbound') >= Len(inbound)
      ]_vars

\* the reader has terminated on a bad frame, its synthetic error is the
\* last item of the inbox, and a frame written behind the bad one is still
\* in the stream
C27_Witness ==
    /\ rdStatus = "terminated"
    /\ inbox # <<>>
    /\ inbox[Len(inbox)] = SynthErr
    /\ inbound # <<>>
    /\ ~inClosed

\* a read_response of execute_batch that nothing can unblock: the stream
\* has ended, the reader thread has put its one synthetic error and
\* terminated, that error has been taken by an earlier read of the batch,
\* and a command of the batch still has no response
StrandedBatchRead ==
    /\ pc = "await"
    /\ cur.wait = "batch"
    /\ Len(cur.got) < Len(command_queue)
    /\ mqSet
    /\ inbox = <<>>
    /\ inClosed
    /\ inbound = <<>>
    /\ rdStatus = "terminated"

\* C28: when the stream closes after the engine has answered only some of
\* the commands of a batch, every remaining read of execute_batch is
\* unblocked by an error-typed response: no read of the batch is left
\* waiting on an ended stream with an empty inbox until its timeout.
C28_RemainingReadsUnblocked == ~StrandedBatchRead

\* a step of execute_batch or flush_batch that reaches send_commands_batch
BatchSend ==
    /\ ExecuteBatch \/ FlushBatch
    /\ batch_mode
    /\ command_queue # <<>>

\* C29: send_commands_batch writes one COMMAND frame for each command, in
\* list order, and closes the outbound stream after the last frame in
\* process mode only, leaving the socket open in socket mode; when the
\* connection is not running it fails with 'Engine not running' and writes
\* nothing.
C29_BatchFramesThenClose ==
    [][ BatchSend =>
          IF ~is_running
          THEN /\ outcome'.kind = "NotRunning"
               /\ UNCHANGED <<wireVars, stdin, socket_conn, socket_file>>
          ELSE /\ pc' = "await"
                  => /\ outbound' = outbound \o
                            [i \in 1..Len(command_queue) |->
                                [t |-> MSG_TYPE_COMMAND,
                                 command |-> command_queue[i].command,
                                 id |-> nSent + i]]
                     /\ nSent' = nSent + Len(command_queue)
                     /\ IF socket_mode
                        THEN /\ socket_file = "file"
                             /\ UNCHANGED <<stdin, socket_conn, socket_file>>
                        ELSE stdin = "open" /\ stdin' = "closed"
               /\ pc' # "await" => UNCHANGED <<wireVars, stdin>>
      ]_vars

\* a batch of two commands has been written to a socket that is still open
C29_Witness ==
    /\ socket_mode
    /\ batch_mode
    /\ pc = "await"
    /\ cur.wait = "batch"
    /\ Len(outbound) = 2
    /\ outbound[1].id = 1
    /\ outbound[2].id = 2
    /\ socket_conn = "sock"
    /\ socket_file = "file"

\* a step of start, test or load_mesh in which EngineManager.start has
\* made a new connection
NewConnection ==
    /\ \E op \in {"start", "test", "load_mesh"} : CallStart(op)
    /\ ~(pc' = "idle" /\ outcome'.kind = "StartFailed")

\* C30: on every connection, in process mode and in socket mode, the reader
\* thread is started on the inbound stream before the first command frame
\* is written: a connection on which a frame has been written has a started
\* reader, making a connection leaves a running reader on the new, empty
\* inbound stream, and every later write finds the reader already started.
C30_ReaderBeforeFirstFrame ==
    /\ [](nSent > 0 => rdStatus # "unstarted")
    /\ [][ /\ NewConnection
              => /\ rdStatus' = "running"
                 /\ rdBuf' = 0
                 /\ inbound' = <<>>
                 /\ ~inClosed'
                 /\ mqSet'
                 /\ inbox' = <<>>
                 /\ nSent' <= 1
           /\ (nSent' > nSent /\ ~NewConnection) => rdStatus # "unstarted"
         ]_vars

\* the first command frame of a socket connection has been written and not
\* yet answered, and the reader thread is running
C30_Witness ==
    /\ socket_mode
    /\ nSent = 1
    /\ Len(outbound) = 1
    /\ nWrote = 0
    /\ inbound = <<>>
    /\ rdStatus = "running"

\* the operation of this step returns at once with a success
QueuedAck == pc' = "idle" /\ outcome'.kind = "ok"

\* the step writes no frame and takes nothing from the inbox
NoWireNoRead == UNCHANGED <<outbound, nSent, inbox, nRead, lastRead>>

\* the step has made a new connection and used neither of its streams
FreshWire ==
    /\ outbound' = <<>>
    /\ nSent' = 0
    /\ inbox' = <<>>
    /\ nRead' = 0
    /\ lastRead' = NoRead

\* C31 (as stated): in batch mode start, load_mesh, preprocess,
\* detect_holes and fill_holes each append exactly one command to the end
\* of command_queue, return a success at once and neither write to the
\* wire nor read from the inbox.
C31_EachAppendsOne ==
    [][ ( /\ batch_mode
          /\ Start \/ LoadMesh \/ Preprocess \/ DetectHoles \/ FillHoles
          /\ QueuedAck )
        => /\ Len(command_queue') = Len(command_queue) + 1
           /\ SubSeq(command_queue', 1, Len(command_queue)) = command_queue
           /\ nSent' = 0 \/ nSent' = nSent
           /\ Len(outbound') <= Len(outbound)
           /\ nRead' = 0 \/ nRead' = nRead
      ]_vars

\* C31 (amended): in batch mode a start that makes the connection appends
\* init; load_mesh appends load_mesh when the connection is running and
\* otherwise starts it first, appending init and then load_mesh;
\* preprocess, detect_holes and fill_holes on a loaded mesh append their
\* own command. Each returns a success at once, writes no frame and reads
\* nothing from the inbox.
C31_BatchQueues ==
    [][ batch_mode =>
        /\ (Start /\ outcome'.kind # "StartFailed")
           => /\ command_queue' = Append(command_queue, Cmd("init"))
              /\ QueuedAck
              /\ FreshWire
        /\ (LoadMesh /\ outcome'.kind # "StartFailed")
           => /\ QueuedAck
              /\ mesh_loaded'
              /\ IF is_running
                 THEN /\ command_queue' =
                            Append(command_queue, Cmd("load_mesh"))
                      /\ NoWireNoRead
                 ELSE /\ command_queue' = command_queue \o
                            <<Cmd("init"), Cmd("load_mesh")>>
                      /\ FreshWire
        /\ \A op \in {"preprocess", "detect_holes", "fill_holes"} :
             (DomainOp(op) /\ mesh_loaded)
             => /\ command_queue' = Append(command_queue, Cmd(op))
                /\ QueuedAck
                /\ NoWireNoRead
      ]_vars

\* start, load_mesh and preprocess have queued their commands in call
\* order and nothing has been written
C31_Witness ==
    /\ batch_mode
    /\ command_queue = <<Cmd("init"), Cmd("load_mesh"), Cmd("preprocess")>>
    /\ pc = "idle"
    /\ outcome.kind = "ok"
    /\ nCalls = 3
    /\ nSent = 0
    /\ outbound = <<>>

\* the operation that waits reads the engine's reply to the command it sent
ReadsOwn ==
    /\ AwaitReturn
    /\ cur.wait = "own"
    /\ FromEngine(Head(inbox))
    /\ Head(inbox).re = cur.id

\* the last operation was a preprocess, detect_holes or fill_holes that
\* raised on the engine's error reply to its own command
RaisedOwnError ==
    /\ outcome.kind = "EngineError"
    /\ outcome.who \in {"preprocess", "detect_holes", "fill_holes"}
    /\ FromEngine(lastRead.resp)
    /\ lastRead.resp.re = lastRead.id

\* C32: in interactive mode an engine error reply to preprocess,
\* detect_holes or fill_holes raises that operation's error and leaves
\* mesh_loaded, command_queue and response_queue unchanged and the
\* connection running with nothing unanswered on it, and an engine
\* response read by the next command is the reply to that command.
C32_ErrorLeavesSessionUsable ==
    [][ /\ ( /\ ~batch_mode
             /\ ReadsOwn
             /\ cur.op \in {"preprocess", "detect_holes", "fill_holes"}
             /\ TypeOf(Head(inbox)) = "error" )
           => /\ pc' = "idle"
              /\ outcome'.kind = "EngineError"
              /\ outcome'.who = cur.op
              /\ UNCHANGED sessVars
              /\ UNCHANGED mgrVars
              /\ is_running'
              /\ outbound' = <<>>
              /\ inbound' = <<>>
              /\ \A i \in 1..Len(inbox') : ~FromEngine(inbox'[i])
        /\ ( /\ ~batch_mode
             /\ RaisedOwnError
             /\ AwaitReturn
             /\ FromEngine(Head(inbox)) )
           => Head(inbox).re = cur.id
      ]_vars

\* after preprocess raised on the engine's error, the next command has been
\* sent on the same connection and its own reply waits in the inbox
C32_Witness ==
    /\ ~batch_mode
    /\ RaisedOwnError
    /\ outcome.who = "preprocess"
    /\ mesh_loaded
    /\ is_running
    /\ pc = "await"
    /\ cur.wait = "own"
    /\ inbox # <<>>
    /\ FromEngine(Head(inbox))
    /\ Head(inbox).re = cur.id

\* C33: in a batch-mode session only execute_batch, reached directly or
\* through save_mesh or flush_batch, writes frames to the outbound stream;
\* no other session operation writes a frame.
C33_OnlyBatchWrites ==
    [][ (batch_mode /\ nSent' > nSent)
        => ExecuteBatch \/ FlushBatch \/ SaveMesh ]_vars

\* the positions of a command queue that hold an init command
InitsIn(q) == {i \in 1..Len(q) : q[i].command = "init"}

\* C34: in batch mode a load_mesh never leaves a second init in
\* command_queue, also when it starts the engine again because the process
\* has exited since start(): the queue it leaves holds exactly one init,
\* and holds it before load_mesh.
C34_OneInitPerBatch ==
    [][ ( /\ batch_mode
          /\ LoadMesh
          /\ outcome'.kind = "ok"
          /\ Cardinality(InitsIn(command_queue)) <= 1 )
        => /\ Cardinality(InitsIn(command_queue')) = 1
           /\ \A i \in 1..Len(command_queue') :
                command_queue'[i].command = "load_mesh"
                => \E j \in InitsIn(command_queue') : j < i
      ]_vars

\* save_mesh reads the last response of its batch in this step
SaveBatchEnds ==
    /\ batch_mode
    /\ pc = "await"
    /\ cur.op = "save_mesh"
    /\ cur.wait = "batch"
    /\ Len(cur.got) + 1 = Len(command_queue)
    /\ AwaitReturn

\* an earlier response of the batch is not an error and carries a mesh
MeshElsewhere ==
    \E i \in 1..Len(cur.got) :
        TypeOf(cur.got[i]) # "error" /\ HasMesh(cur.got[i])

BatchFails ==
    \/ /\ pc = "await"
       /\ cur.wait = "batch"
       /\ AwaitTimeout
    \/ /\ ExecuteBatch \/ FlushBatch
       /\ batch_mode
       /\ command_queue # <<>>
       /\ pc' = "idle"

\* how an execute_batch that failed part-way ends
BatchFailures == {"Timeout", "NotRunning", "ValueError", "BrokenPipeError"}

\* C36: an execute_batch that fails part-way leaves command_queue and
\* response_queue as they were, and the stop() that follows it still
\* terminates the engine process.
C36_FailedBatchThenStop ==
    [][ /\ BatchFails => UNCHANGED <<command_queue, response_queue>>
        /\ ( /\ batch_mode
             /\ ~socket_mode
             /\ outcome.kind \in BatchFailures
             /\ Stop )
           => /\ ~procAlive'
              /\ engine_proc' = "None"
      ]_vars

\* C37: in a socket-mode session constructed with batch_mode true,
\* execute_batch returns the k responses once it has read the last of
\* them: it does not raise, and it leaves the externally managed engine
\* and the socket alone.
C37_SocketBatchCompletes ==
    [][ ( /\ socket_mode
          /\ batch_mode
          /\ pc = "await"
          /\ cur.op = "execute_batch"
          /\ Len(cur.got) + 1 = Len(command_queue)
          /\ AwaitReturn )
        => /\ pc' = "idle"
           /\ outcome'.kind = "ok"
           /\ outcome'.resps = Append(cur.got, Head(inbox))
           /\ UNCHANGED <<socket_conn, socket_file, inClosed>>
      ]_vars

\* C38: after stop() has returned, in process mode and in socket mode, the
\* reader thread of the stopped connection eventually terminates.
C38_ReaderEndsAfterStop == StoppedByStop ~> (rdStatus # "running")

\* C39: when the test-engine operator returns after the engine was started,
\* the session has been stopped: the engine process has been terminated or
\* the socket closed, also when session.test() failed.
C39_TestOperatorStops ==
    (TestOperatorDone /\ mqSet) => ~is_running

====
